---- MODULE Spec2Model ----
(***************************************************************************)
(* Model of the NEAR contracts of services/blockchain/near-rs:             *)
(* account-recovery (guardian registration, approval, execution and the    *)
(* promise callback) and core-banking (deposit, withdraw, owner_withdraw   *)
(* over the balance ledger).  Every contract method is one atomic action.  A *)
(* panic reverts the whole call: <method>_panic gives the message the call *)
(* panics with (or NoPanic), evaluated in the order of the code's checks,  *)
(* and a panicking call leaves every variable unchanged.                   *)
(*                                                                         *)
(* Modelling conventions                                                   *)
(*  - AccountId and String values are sequences of characters, so that     *)
(*    format!("{}{}{}", ..) is real concatenation.                         *)
(*  - sha256 + hex encoding is collision resistant: it is represented by   *)
(*    the byte string it is applied to (equal ids <=> equal pre-images).   *)
(*  - block_timestamp is counted in days since the Unix epoch instead of   *)
(*    nanoseconds (NANOS_PER_DAY is the scale); the arithmetic is the      *)
(*    code's.  The chain starts at a present-day timestamp, so that, as on *)
(*    a live chain, all timestamps print with the same number of digits.   *)
(*  - UnorderedSet is a mathematical set (insert, contains, len).          *)
(*  - NearToken amounts are unbounded naturals: deposits are backed by     *)
(*    attached tokens, whose total supply is far below 2^128.              *)
(*  - deposited and withdrawn are history variables of the bank: the sums  *)
(*    of the accepted deposits and withdrawals of each account.            *)
(***************************************************************************)
EXTENDS Integers, Sequences, FiniteSets, TLC

(* ------------------------------ bounds --------------------------------- *)
MaxLen == 2          \* longest guardian list passed to set_guardians
Genesis == 20000     \* block_timestamp of the first block (days since the epoch)
MaxTime == 10        \* the clock stops advancing MaxTime after Genesis
MaxRequests == 2     \* number of recovery requests ever created
MaxGuardians == 5    \* largest guardian set registered when thresholds are computed
MaxDeposit == 3      \* most yoctoNEAR an account deposits in the bank, in total

(* ------------------------------ inputs --------------------------------- *)
Alice == <<"a">>
Bob == <<"b">>
Carol == <<"c">>
Accounts == {Alice, Bob, Carol}
Owners == {Alice}    \* accounts that register guardians in the recovery workflow
current_account_id == <<"r">>
PublicKeys == {<<"k">>, <<"k", "1">>}
GuardianLists == UNION {[1..n -> Accounts] : n \in 0..MaxLen}
\* guardians an owner may name when it registers larger sets
Candidates == <<Bob, Carol, <<"d">>, <<"e">>, <<"f">>, <<"g">>, <<"h">>>>

(* ----------------------------- constants ------------------------------- *)
MIN_GUARDIANS == 2
RECOVERY_PERIOD_DAYS == 7
NANOS_PER_DAY == 1

VARIABLES
    user_guardians,            \* LookupMap<AccountId, UnorderedSet<AccountId>>
    active_recovery_requests,  \* LookupMap<String, RecoveryRequest>
    block_timestamp,           \* env::block_timestamp()
    promises,                  \* update_public_key calls in flight, with their callback
    resolved                   \* promise result each finished callback has seen

vars == <<user_guardians, active_recovery_requests, block_timestamp, promises, resolved>>

\* the core-banking contract
VARIABLES
    balances,                  \* LookupMap<AccountId, NearToken>
    account_balance,           \* env::account_balance(): NEAR held by the contract
    deposited,                 \* yoctoNEAR each account's accepted deposits attached
    withdrawn                  \* yoctoNEAR each account's accepted withdrawals took out

bank_vars == <<balances, account_balance, deposited, withdrawn>>

(* ------------------------------ helpers -------------------------------- *)
NoPanic == "ok"

Digits == <<"0", "1", "2", "3", "4", "5", "6", "7", "8", "9">>

RECURSIVE format_u64(_)
format_u64(n) ==
    IF n < 10 THEN <<Digits[n + 1]>>
    ELSE format_u64(n \div 10) \o <<Digits[(n % 10) + 1]>>

recovery_id(account_to_recover, new_public_key, timestamp) ==
    account_to_recover \o new_public_key \o format_u64(timestamp)

\* half of the guardians, rounded up, as the threshold
threshold_half_rounded_up(len) == (len + 1) \div 2

threshold(len) == len \div 2 + 1

recovery_period_nanos == RECOVERY_PERIOD_DAYS * NANOS_PER_DAY

remove(map, key) == [k \in DOMAIN map \ {key} |-> map[k]]

(* ------------------------------- Init ---------------------------------- *)
Init ==
    /\ user_guardians = << >>
    /\ active_recovery_requests = << >>
    /\ block_timestamp = Genesis
    /\ promises = {}
    /\ resolved = << >>
    /\ balances = << >>
    /\ account_balance = 0
    /\ deposited = [a \in Accounts |-> 0]
    /\ withdrawn = [a \in Accounts |-> 0]

(* --------------------------- set_guardians ----------------------------- *)
\* guardian_loop that compares only the first guardian with the signer
guardian_loop_first_only(signer_id, guardians, i, guardian_set) ==
    IF Len(guardians) >= 1 /\ signer_id = guardians[1]
    THEN [panic |-> TRUE, set |-> guardian_set]
    ELSE [panic |-> FALSE, set |-> {guardians[j] : j \in DOMAIN guardians}]

\* the for loop: insert each guardian, panic at the first one equal to the signer
RECURSIVE guardian_loop(_, _, _, _)
guardian_loop(signer_id, guardians, i, guardian_set) ==
    IF i > Len(guardians) THEN [panic |-> FALSE, set |-> guardian_set]
    ELSE IF signer_id = guardians[i] THEN [panic |-> TRUE, set |-> guardian_set]
    ELSE guardian_loop(signer_id, guardians, i + 1, guardian_set \cup {guardians[i]})

set_guardians_panic(signer_id, guardians) ==
    IF ~(Len(guardians) >= MIN_GUARDIANS) THEN "Must provide at least 2 guardians."
    ELSE IF guardian_loop(signer_id, guardians, 1, {}).panic
    THEN "Cannot set self as a guardian."
    ELSE NoPanic

\* set_guardians that adds the new guardians to the registered set
set_guardians_merge(signer_id, guardians) ==
    IF set_guardians_panic(signer_id, guardians) # NoPanic
    THEN UNCHANGED vars
    ELSE /\ user_guardians' =
                (signer_id :>
                    (guardian_loop(signer_id, guardians, 1, {}).set
                        \cup (IF signer_id \in DOMAIN user_guardians
                              THEN user_guardians[signer_id] ELSE {})))
                    @@ user_guardians
         /\ UNCHANGED <<active_recovery_requests, block_timestamp, promises, resolved>>

set_guardians(signer_id, guardians) ==
    IF set_guardians_panic(signer_id, guardians) # NoPanic
    THEN UNCHANGED vars
    ELSE /\ user_guardians' =
                (signer_id :> guardian_loop(signer_id, guardians, 1, {}).set)
                    @@ user_guardians
         /\ UNCHANGED <<active_recovery_requests, block_timestamp, promises, resolved>>

(* -------------------------- initiate_recovery -------------------------- *)
TrackedIds ==
    DOMAIN active_recovery_requests \cup {p.id : p \in promises} \cup DOMAIN resolved

\* initiate_recovery_panic without the collision check
initiate_recovery_panic_no_collision_check(account_to_recover, new_public_key) ==
    IF ~(account_to_recover \in DOMAIN user_guardians)
    THEN "No guardians set for this account."
    ELSE NoPanic

initiate_recovery_panic(account_to_recover, new_public_key) ==
    IF ~(account_to_recover \in DOMAIN user_guardians)
    THEN "No guardians set for this account."
    ELSE IF recovery_id(account_to_recover, new_public_key, block_timestamp)
                \in DOMAIN active_recovery_requests
    THEN "Recovery request ID collision. Please try again."
    ELSE NoPanic

\* initiate_recovery without the two guardian lookups: a target with no
\* guardian set gets a request over an empty guardian list
initiate_recovery_guardianless(caller, account_to_recover, new_public_key) ==
    /\ Cardinality(TrackedIds) < MaxRequests
    /\ IF recovery_id(account_to_recover, new_public_key, block_timestamp)
            \in DOMAIN active_recovery_requests
       THEN UNCHANGED vars
       ELSE LET id == recovery_id(account_to_recover, new_public_key, block_timestamp)
                guardians_for_account ==
                    IF account_to_recover \in DOMAIN user_guardians
                    THEN user_guardians[account_to_recover] ELSE {}
                request == [account_to_recover |-> account_to_recover,
                            new_public_key |-> new_public_key,
                            initiated_timestamp |-> block_timestamp,
                            approvals |-> {},
                            threshold |-> threshold(Cardinality(guardians_for_account))]
            IN /\ active_recovery_requests' = (id :> request) @@ active_recovery_requests
               /\ UNCHANGED <<user_guardians, block_timestamp, promises, resolved>>

initiate_recovery(caller, account_to_recover, new_public_key) ==
    /\ Cardinality(TrackedIds) < MaxRequests
    /\ IF initiate_recovery_panic(account_to_recover, new_public_key) # NoPanic
       THEN UNCHANGED vars
       ELSE LET id == recovery_id(account_to_recover, new_public_key, block_timestamp)
                guardians_for_account == user_guardians[account_to_recover]
                request == [account_to_recover |-> account_to_recover,
                            new_public_key |-> new_public_key,
                            initiated_timestamp |-> block_timestamp,
                            approvals |-> {},
                            threshold |-> threshold(Cardinality(guardians_for_account))]
            IN /\ active_recovery_requests' = (id :> request) @@ active_recovery_requests
               /\ UNCHANGED <<user_guardians, block_timestamp, promises, resolved>>

(* --------------------------- approve_recovery -------------------------- *)
\* approve_recovery_panic without the check for a repeated approval
approve_recovery_panic_no_repeat_check(signer_id, id) ==
    IF ~(id \in DOMAIN active_recovery_requests) THEN "Recovery request not found."
    ELSE IF ~(active_recovery_requests[id].account_to_recover \in DOMAIN user_guardians)
    THEN "Guardians not found for target account."
    ELSE IF ~(signer_id
                \in user_guardians[active_recovery_requests[id].account_to_recover])
    THEN "Caller is not a registered guardian for this account."
    ELSE NoPanic

approve_recovery_panic(signer_id, id) ==
    IF ~(id \in DOMAIN active_recovery_requests) THEN "Recovery request not found."
    ELSE LET request == active_recovery_requests[id] IN
         IF ~(request.account_to_recover \in DOMAIN user_guardians)
         THEN "Guardians not found for target account."
         ELSE IF ~(signer_id \in user_guardians[request.account_to_recover])
         THEN "Caller is not a registered guardian for this account."
         ELSE IF signer_id \in request.approvals
         THEN "Guardian has already approved this request."
         ELSE NoPanic

\* approve_recovery that recomputes the threshold from the current guardian set
approve_recovery_rethreshold(signer_id, id) ==
    IF approve_recovery_panic(signer_id, id) # NoPanic
    THEN UNCHANGED vars
    ELSE /\ active_recovery_requests' =
                [active_recovery_requests EXCEPT
                    ![id].approvals = @ \cup {signer_id},
                    ![id].threshold = threshold(Cardinality(
                        user_guardians[active_recovery_requests[id].account_to_recover]))]
         /\ UNCHANGED <<user_guardians, block_timestamp, promises, resolved>>

\* approve_recovery that executes the request as soon as the approvals reach
\* the threshold
approve_recovery_dispatch(signer_id, id) ==
    IF approve_recovery_panic(signer_id, id) # NoPanic
    THEN UNCHANGED vars
    ELSE LET request == active_recovery_requests[id] IN
         IF Cardinality(request.approvals \cup {signer_id}) >= request.threshold
         THEN /\ active_recovery_requests' = remove(active_recovery_requests, id)
              /\ promises' = promises \cup
                    {[id |-> id, account_id |-> request.account_to_recover,
                      new_public_key |-> request.new_public_key]}
              /\ UNCHANGED <<user_guardians, block_timestamp, resolved>>
         ELSE /\ active_recovery_requests' =
                    [active_recovery_requests EXCEPT ![id].approvals = @ \cup {signer_id}]
              /\ UNCHANGED <<user_guardians, block_timestamp, promises, resolved>>

approve_recovery(signer_id, id) ==
    IF approve_recovery_panic(signer_id, id) # NoPanic
    THEN UNCHANGED vars
    ELSE /\ active_recovery_requests' =
                [active_recovery_requests EXCEPT ![id].approvals = @ \cup {signer_id}]
         /\ UNCHANGED <<user_guardians, block_timestamp, promises, resolved>>

(* --------------------------- execute_recovery -------------------------- *)
\* execute_recovery_panic without the recovery period check
execute_recovery_panic_no_timelock(id) ==
    IF ~(id \in DOMAIN active_recovery_requests) THEN "Recovery request not found."
    ELSE IF ~(Cardinality(active_recovery_requests[id].approvals)
                >= active_recovery_requests[id].threshold)
    THEN "Not enough guardian approvals yet."
    ELSE NoPanic

\* execute_recovery_panic that counts only the approvals of accounts that are
\* guardians of the target now
execute_recovery_panic_current_guardians(id) ==
    IF ~(id \in DOMAIN active_recovery_requests) THEN "Recovery request not found."
    ELSE IF ~(Cardinality(active_recovery_requests[id].approvals
                \cap user_guardians[active_recovery_requests[id].account_to_recover])
                >= active_recovery_requests[id].threshold)
    THEN "Not enough guardian approvals yet."
    ELSE IF ~(block_timestamp - active_recovery_requests[id].initiated_timestamp
                >= recovery_period_nanos)
    THEN "Recovery period has not yet passed."
    ELSE NoPanic

\* execute_recovery_panic that compares the block time itself, not the time
\* since the request was initiated, with the recovery period
execute_recovery_panic_absolute_time(id) ==
    IF ~(id \in DOMAIN active_recovery_requests) THEN "Recovery request not found."
    ELSE IF ~(Cardinality(active_recovery_requests[id].approvals)
                >= active_recovery_requests[id].threshold)
    THEN "Not enough guardian approvals yet."
    ELSE IF ~(block_timestamp >= recovery_period_nanos)
    THEN "Recovery period has not yet passed."
    ELSE NoPanic

execute_recovery_panic(id) ==
    IF ~(id \in DOMAIN active_recovery_requests) THEN "Recovery request not found."
    ELSE LET request == active_recovery_requests[id]
             elapsed_time == block_timestamp - request.initiated_timestamp
         IN IF ~(Cardinality(request.approvals) >= request.threshold)
            THEN "Not enough guardian approvals yet."
            ELSE IF ~(elapsed_time >= recovery_period_nanos)
            THEN "Recovery period has not yet passed."
            ELSE NoPanic

\* the promise chain update_public_key(..).then(recovery_callback(account_id)),
\* tagged with the id of the call that created it
promise_for(id) ==
    [id |-> id,
     account_id |-> active_recovery_requests[id].account_to_recover,
     new_public_key |-> active_recovery_requests[id].new_public_key]

\* execute_recovery that keeps the request in the ledger
execute_recovery_keep(caller, id) ==
    IF execute_recovery_panic(id) # NoPanic
    THEN UNCHANGED vars
    ELSE /\ promises' = promises \cup {promise_for(id)}
         /\ UNCHANGED <<user_guardians, active_recovery_requests, block_timestamp,
                        resolved>>

execute_recovery(caller, id) ==
    IF execute_recovery_panic(id) # NoPanic
    THEN UNCHANGED vars
    ELSE /\ active_recovery_requests' = remove(active_recovery_requests, id)
         /\ promises' = promises \cup {promise_for(id)}
         /\ UNCHANGED <<user_guardians, block_timestamp, resolved>>

(* --------------------------- recovery_callback ------------------------- *)
PromiseResults == {"Successful", "Failed"}

\* #[private]: the predecessor must be the contract itself
recovery_callback_panic(predecessor) ==
    IF predecessor # current_account_id THEN "Method recovery_callback is private"
    ELSE NoPanic

\* recovery_callback that settles every request of the account it is given
\* (account_id is its only argument)
recovery_callback_by_account(p, promise_result) ==
    /\ p \in promises
    /\ promises' = {q \in promises : q.account_id # p.account_id}
    /\ resolved' =
            [id \in {q.id : q \in {q \in promises : q.account_id = p.account_id}}
                |-> promise_result] @@ resolved
    /\ UNCHANGED <<user_guardians, active_recovery_requests, block_timestamp>>

\* recovery_callback that finds the promise result missing
\* (PromiseResult::Not) and panics with "Promise not ready."
recovery_callback_not_ready(p, promise_result) ==
    /\ p \in promises
    /\ UNCHANGED vars

\* the callback scheduled by the promise p, run by the contract on its result;
\* both arms only log
recovery_callback(p, promise_result) ==
    /\ p \in promises
    /\ recovery_callback_panic(current_account_id) = NoPanic
    /\ promises' = promises \ {p}
    /\ resolved' = (p.id :> promise_result) @@ resolved
    /\ UNCHANGED <<user_guardians, active_recovery_requests, block_timestamp>>

\* a direct call of recovery_callback without #[private]: the caller supplies
\* the promise result, and the outcome is logged for a request of account_id
\* whose own promise is still in flight
private_call_unchecked(predecessor, account_id) ==
    \E p \in promises, promise_result \in PromiseResults :
        /\ p.account_id = account_id
        /\ resolved' = (p.id :> promise_result) @@ resolved
        /\ UNCHANGED <<user_guardians, active_recovery_requests, block_timestamp,
                       promises>>

\* a direct call of recovery_callback by an account
private_call(predecessor, account_id) ==
    /\ recovery_callback_panic(predecessor) # NoPanic
    /\ UNCHANGED vars

(* ------------------------------- views --------------------------------- *)
get_guardians(account_id) ==
    IF account_id \in DOMAIN user_guardians
    THEN [some |-> TRUE, vec |-> user_guardians[account_id]]
    ELSE [some |-> FALSE]

get_recovery_request(id) ==
    IF id \in DOMAIN active_recovery_requests
    THEN [some |-> TRUE, request |-> active_recovery_requests[id]]
    ELSE [some |-> FALSE]

get_recovery_approvals_count(id) ==
    IF id \in DOMAIN active_recovery_requests
    THEN Cardinality(active_recovery_requests[id].approvals)
    ELSE 0

(* ------------------------------ block ---------------------------------- *)
\* a new block: the clock advances by half the horizon or by a recovery period
BlockTimes == {MaxTime \div 2, recovery_period_nanos}

AdvanceTime ==
    \E d \in BlockTimes :
        /\ block_timestamp + d <= Genesis + MaxTime
        /\ block_timestamp' = block_timestamp + d
        /\ UNCHANGED <<user_guardians, active_recovery_requests, promises, resolved>>
        /\ UNCHANGED bank_vars

(* ------------------------------- Next ---------------------------------- *)
\* ids a caller may pass: every id ever returned, and the ids the current block
\* would produce (created or not)
RecoveryIds ==
    TrackedIds \cup {recovery_id(a, k, block_timestamp) : a \in Owners, k \in PublicKeys}

SetGuardians ==
    \E c \in Owners, g \in GuardianLists :
        set_guardians(c, g) /\ UNCHANGED bank_vars
InitiateRecovery ==
    \E c \in Accounts, a \in Accounts, k \in PublicKeys :
        initiate_recovery(c, a, k) /\ UNCHANGED bank_vars
ApproveRecovery ==
    \E c \in Accounts, id \in RecoveryIds :
        approve_recovery(c, id) /\ UNCHANGED bank_vars
ExecuteRecovery ==
    \E c \in Accounts, id \in RecoveryIds :
        execute_recovery(c, id) /\ UNCHANGED bank_vars
RecoveryCallback ==
    \E p \in promises, r \in PromiseResults :
        recovery_callback(p, r) /\ UNCHANGED bank_vars
PrivateCall ==
    \E c \in Accounts, a \in Owners :
        private_call(c, a) /\ UNCHANGED bank_vars

Next ==
    \/ SetGuardians
    \/ InitiateRecovery
    \/ ApproveRecovery
    \/ ExecuteRecovery
    \/ RecoveryCallback
    \/ PrivateCall
    \/ AdvanceTime

Spec == Init /\ [][Next]_vars

(* The external account manager answers every call it accepted: the       *)
(* callback of each promise in flight is eventually run, with either result. *)
AllPromises ==
    {[id |-> recovery_id(a, k, t), account_id |-> a, new_public_key |-> k] :
        a \in Owners, k \in PublicKeys, t \in Genesis..(Genesis + MaxTime)}

Delivery ==
    \A p \in AllPromises :
        WF_vars(\E r \in PromiseResults : recovery_callback(p, r) /\ UNCHANGED bank_vars)

\* the owner registers two guardians, and requests run their whole course
SetGuardiansPair == set_guardians(Alice, <<Bob, Carol>>) /\ UNCHANGED bank_vars

NextDelivery ==
    \/ SetGuardiansPair
    \/ InitiateRecovery
    \/ ApproveRecovery
    \/ ExecuteRecovery
    \/ RecoveryCallback
    \/ AdvanceTime

DeliverySpec == Init /\ [][NextDelivery]_vars

FairSpec == DeliverySpec /\ Delivery

(* The guardian directory on its own: every account registers guardians.   *)
SetGuardiansAny ==
    \E c \in Accounts, g \in GuardianLists :
        set_guardians(c, g) /\ UNCHANGED bank_vars

NextDirectory ==
    \/ SetGuardiansAny
    \/ AdvanceTime

DirectorySpec == Init /\ [][NextDirectory]_vars
(* Thresholds: one owner registers the first n candidates, for every n, and *)
(* recovery requests are created for it.                                    *)
SetGuardiansN ==
    \E n \in 0..MaxGuardians :
        set_guardians(Alice, SubSeq(Candidates, 1, n)) /\ UNCHANGED bank_vars

NextThreshold ==
    \/ SetGuardiansN
    \/ InitiateRecovery
    \/ AdvanceTime

ThresholdSpec == Init /\ [][NextThreshold]_vars

(* ============================ core-banking ============================= *)
owner_id == Carol

deposit_panic(deposit_amount) ==
    IF ~(deposit_amount > 0) THEN "Attached deposit must be greater than 0."
    ELSE NoPanic

\* a panicking call returns the attached deposit to the caller
deposit(account_id, deposit_amount) ==
    /\ deposited[account_id] + deposit_amount <= MaxDeposit
    /\ IF deposit_panic(deposit_amount) # NoPanic
       THEN UNCHANGED bank_vars
       ELSE LET balance_yocto ==
                    (IF account_id \in DOMAIN balances THEN balances[account_id] ELSE 0)
                        + deposit_amount
            IN /\ balances' = (account_id :> balance_yocto) @@ balances
               /\ account_balance' = account_balance + deposit_amount
               /\ deposited' = [deposited EXCEPT ![account_id] = @ + deposit_amount]
               /\ UNCHANGED withdrawn

\* withdraw_panic without the comparison of the amount with the balance
withdraw_panic_no_balance_check(account_id, amount) ==
    IF ~(account_id \in DOMAIN balances) THEN "No balance found for this account."
    ELSE IF ~(amount > 0) THEN "Withdrawal amount must be greater than 0."
    ELSE IF ~(account_balance >= amount) THEN "Exceeded the account balance."
    ELSE NoPanic

\* the last case is the host refusing a transfer of more than the contract holds
withdraw_panic(account_id, amount) ==
    IF ~(account_id \in DOMAIN balances) THEN "No balance found for this account."
    ELSE LET current_balance_yocto == balances[account_id] IN
         IF ~(amount > 0) THEN "Withdrawal amount must be greater than 0."
         ELSE IF ~(current_balance_yocto >= amount)
         THEN "Insufficient balance for withdrawal."
         ELSE IF ~(account_balance >= amount) THEN "Exceeded the account balance."
         ELSE NoPanic

withdraw(account_id, amount) ==
    IF withdraw_panic(account_id, amount) # NoPanic
    THEN UNCHANGED bank_vars
    ELSE /\ balances' = (account_id :> (balances[account_id] - amount)) @@ balances
         /\ account_balance' = account_balance - amount
         /\ withdrawn' = [withdrawn EXCEPT ![account_id] = @ + amount]
         /\ UNCHANGED deposited

get_balance(account_id) ==
    IF account_id \in DOMAIN balances THEN balances[account_id] ELSE 0

owner_withdraw_panic(predecessor, amount) ==
    IF predecessor # owner_id THEN "Only the owner can call this function."
    ELSE IF ~(amount > 0) THEN "Withdrawal amount must be greater than 0."
    ELSE IF ~(account_balance >= amount) THEN "Contract has insufficient balance."
    ELSE NoPanic

owner_withdraw(predecessor, amount) ==
    IF owner_withdraw_panic(predecessor, amount) # NoPanic
    THEN UNCHANGED bank_vars
    ELSE /\ account_balance' = account_balance - amount
         /\ UNCHANGED <<balances, deposited, withdrawn>>

Amounts == 0..MaxDeposit

Deposit ==
    \E c \in Accounts, a \in Amounts : deposit(c, a) /\ UNCHANGED vars
Withdraw ==
    \E c \in Accounts, a \in Amounts : withdraw(c, a) /\ UNCHANGED vars
OwnerWithdraw ==
    \E c \in Accounts, a \in Amounts : owner_withdraw(c, a) /\ UNCHANGED vars

NextBank ==
    \/ Deposit
    \/ Withdraw
    \/ OwnerWithdraw

BankSpec == Init /\ [][NextBank]_bank_vars

(***************************************************************************)
(*                               Properties                                *)
(***************************************************************************)
Range(f) == {f[i] : i \in DOMAIN f}

Elapsed(id) == block_timestamp - active_recovery_requests[id].initiated_timestamp

Approved(id) ==
    Cardinality(active_recovery_requests[id].approvals)
        >= active_recovery_requests[id].threshold

\* C1: execute_recovery dispatches the external update only when the request has
\* at least `threshold` approvals and the recovery period has passed since its
\* creation; with too few approvals, or inside the period, the call panics,
\* dispatches nothing and leaves the ledger as it was.
C1_AbortsUnlessReady ==
    \A id \in DOMAIN active_recovery_requests :
        (~Approved(id) \/ Elapsed(id) < recovery_period_nanos)
            => execute_recovery_panic(id) # NoPanic

C1_DispatchNeedsBoth ==
    <<active_recovery_requests, promises>>' # <<active_recovery_requests, promises>> =>
        /\ \A p \in promises' \ promises :
              /\ p.id \in DOMAIN active_recovery_requests
              /\ Approved(p.id)
              /\ Elapsed(p.id) >= recovery_period_nanos
        /\ \A c \in Accounts, id \in DOMAIN active_recovery_requests :
              execute_recovery_panic(id) # NoPanic => ~execute_recovery(c, id)

C1_ExecuteGuard == [](C1_AbortsUnlessReady) /\ [][C1_DispatchNeedsBoth]_vars

\* one call is dispatched while another request, with enough approvals, is
\* still inside its recovery period
C1_Witness ==
    /\ promises # {}
    /\ \E id \in DOMAIN active_recovery_requests :
          /\ Approved(id)
          /\ execute_recovery_panic(id) = "Recovery period has not yet passed."

\* C2: a record leaves the ledger only by a Successful callback of its request;
\* in particular an accepted execute_recovery keeps the record.
C2_RemovedOnlyOnSuccess ==
    [][\A id \in DOMAIN active_recovery_requests :
          id \notin DOMAIN active_recovery_requests'
              => /\ id \in DOMAIN resolved'
                 /\ resolved'[id] = "Successful"
                 /\ promises' # promises]_vars

\* C3: execute_recovery on a request whose external call is outstanding is
\* rejected as a conflict (the request is known, and executing), not as an
\* unknown request.
C3_ConflictWhileExecuting ==
    \A p \in promises :
        /\ execute_recovery_panic(p.id) # NoPanic
        /\ execute_recovery_panic(p.id) # "Recovery request not found."

\* C4: after a Failed callback the record is in the ledger with its approvals
\* and threshold, and execute_recovery on it is accepted again.
C4_FailureKeepsRecord ==
    \A id \in DOMAIN resolved :
        (resolved[id] = "Failed" /\ id \notin {p.id : p \in promises})
            => /\ id \in DOMAIN active_recovery_requests
               /\ execute_recovery_panic(id) = NoPanic
\* C5: once a callback has reported Successful for a request, the id is
\* absent from then on: get_recovery_request returns none, the approval count
\* is 0 and no approve_recovery or execute_recovery on the id is accepted.
C5_CompletedStaysAbsent ==
    \A id \in DOMAIN resolved :
        resolved[id] = "Successful"
            => /\ ~get_recovery_request(id).some
               /\ get_recovery_approvals_count(id) = 0
               /\ execute_recovery_panic(id) # NoPanic
               /\ \A c \in Accounts : approve_recovery_panic(c, id) # NoPanic

\* a request has completed while another one is in the ledger; a guardian's
\* approval of the completed id finds no request
C5_Witness ==
    \E id \in DOMAIN resolved, c \in Accounts :
        /\ resolved[id] = "Successful"
        /\ c \in user_guardians[Alice]
        /\ approve_recovery_panic(c, id) = "Recovery request not found."
        /\ active_recovery_requests # << >>

\* C6: approve_recovery panics, leaving the approvals as they were, when the
\* caller is not in the target's current guardian set and when the caller has
\* already approved; an accepted call adds exactly the caller, a current
\* guardian who had not approved, so the count grows by one per approver.
C6_ApproveAborts ==
    \A id \in DOMAIN active_recovery_requests, c \in Accounts :
        (\/ c \notin get_guardians(active_recovery_requests[id].account_to_recover).vec
         \/ c \in active_recovery_requests[id].approvals)
            => approve_recovery_panic(c, id) # NoPanic

C6_ApproveStep ==
    active_recovery_requests' # active_recovery_requests =>
        /\ \A id \in DOMAIN active_recovery_requests, c \in Accounts :
              approve_recovery_panic(c, id) # NoPanic => ~approve_recovery(c, id)
        /\ \A id \in DOMAIN active_recovery_requests
                        \cap DOMAIN active_recovery_requests' :
              active_recovery_requests'[id] # active_recovery_requests[id]
                  => \E c \in user_guardians[
                                  active_recovery_requests[id].account_to_recover] :
                        /\ c \notin active_recovery_requests[id].approvals
                        /\ active_recovery_requests'[id].approvals
                               = active_recovery_requests[id].approvals \cup {c}
                        /\ get_recovery_approvals_count(id)'
                               = get_recovery_approvals_count(id) + 1

C6_ApproveOncePerGuardian == [](C6_ApproveAborts) /\ [][C6_ApproveStep]_vars

\* a request with an approval, for which one account is refused as a repeated
\* approver and another as a non-guardian
C6_Witness ==
    \E id \in DOMAIN active_recovery_requests, c, d \in Accounts :
        /\ get_recovery_approvals_count(id) >= 1
        /\ approve_recovery_panic(c, id) = "Guardian has already approved this request."
        /\ approve_recovery_panic(d, id)
               = "Caller is not a registered guardian for this account."

\* C7: set_guardians with at least 2 guardians, none of them the caller, is
\* accepted and replaces the caller's set by exactly the supplied accounts;
\* an account left out of the new list is refused by approve_recovery.
C7_DroppedGuardianRefused ==
    \A id \in DOMAIN active_recovery_requests, c \in Accounts :
        c \notin get_guardians(active_recovery_requests[id].account_to_recover).vec
            => approve_recovery_panic(c, id) # NoPanic

C7_ReplaceStep ==
    \A c \in {a \in Accounts : get_guardians(a)' # get_guardians(a)} :
        \A g \in GuardianLists :
            (Len(g) >= 2 /\ c \notin Range(g))
                => /\ set_guardians_panic(c, g) = NoPanic
                   /\ \/ get_guardians(c)' = [some |-> TRUE, vec |-> Range(g)]
                      \/ ~set_guardians(c, g)

C7_SetGuardiansReplaces ==
    [](C7_DroppedGuardianRefused) /\ [][C7_ReplaceStep]_vars

\* the target replaced its guardians after one of them approved: the approver
\* is no longer a guardian
C7_Witness ==
    \E id \in DOMAIN active_recovery_requests :
        \E c \in active_recovery_requests[id].approvals :
            /\ get_guardians(active_recovery_requests[id].account_to_recover).some
            /\ c \notin get_guardians(active_recovery_requests[id].account_to_recover).vec
            /\ approve_recovery_panic(c, id)
                   = "Caller is not a registered guardian for this account."

\* C8: set_guardians with fewer than 2 guardians, or with the caller anywhere
\* in the list, panics and leaves every registered guardian set as it was.
C8_Rejected ==
    \A c \in Accounts, g \in GuardianLists :
        (Len(g) < 2 \/ c \in Range(g)) => set_guardians_panic(c, g) # NoPanic

C8_NoPartialUpdate ==
    user_guardians' # user_guardians =>
        \A c \in Accounts, g \in GuardianLists :
            (Len(g) < 2 \/ c \in Range(g)) => ~set_guardians(c, g)

C8_SetGuardiansAborts == [](C8_Rejected) /\ [][C8_NoPartialUpdate]_vars

\* two accounts have registered guardians, and a list naming the caller in its
\* last position is refused
C8_Witness ==
    /\ Cardinality(DOMAIN user_guardians) >= 2
    /\ \E c \in DOMAIN user_guardians, g \in GuardianLists :
          /\ Len(g) >= 2
          /\ g[1] # c
          /\ g[Len(g)] = c
          /\ set_guardians_panic(c, g) = "Cannot set self as a guardian."

\* C9: every registered guardian set has at least 2 distinct members and does
\* not contain its owner.
C9_GuardianSetInvariant ==
    \A a \in DOMAIN user_guardians :
        /\ Cardinality(user_guardians[a]) >= MIN_GUARDIANS
        /\ a \notin user_guardians[a]

\* C10: initiate_recovery for a target, key and timestamp whose id is already
\* in the ledger panics and leaves the stored record as it was; every record
\* is stored under the id of its own target, key and timestamp.
C10_CollisionAborts ==
    \A id \in DOMAIN active_recovery_requests :
        LET r == active_recovery_requests[id] IN
        /\ id = recovery_id(r.account_to_recover, r.new_public_key, r.initiated_timestamp)
        /\ block_timestamp = r.initiated_timestamp
              => initiate_recovery_panic(r.account_to_recover, r.new_public_key)
                     = "Recovery request ID collision. Please try again."

C10_NoOverwrite ==
    active_recovery_requests' # active_recovery_requests =>
        /\ \A c \in Accounts, a \in Accounts, k \in PublicKeys :
              recovery_id(a, k, block_timestamp) \in DOMAIN active_recovery_requests
                  => ~initiate_recovery(c, a, k)
        /\ \A id \in DOMAIN active_recovery_requests
                        \cap DOMAIN active_recovery_requests' :
              /\ active_recovery_requests'[id].threshold
                     = active_recovery_requests[id].threshold
              /\ active_recovery_requests[id].approvals
                     \subseteq active_recovery_requests'[id].approvals
              /\ active_recovery_requests'[id].initiated_timestamp
                     = active_recovery_requests[id].initiated_timestamp

C10_InitiateCollision == [](C10_CollisionAborts) /\ [][C10_NoOverwrite]_vars

\* a request that has collected an approval in the block of its creation: a
\* second initiate_recovery for the same target and key collides with it
C10_Witness ==
    \E id \in DOMAIN active_recovery_requests :
        LET r == active_recovery_requests[id] IN
        /\ r.initiated_timestamp = block_timestamp
        /\ r.approvals # {}
        /\ Cardinality(TrackedIds) < MaxRequests
        /\ initiate_recovery_panic(r.account_to_recover, r.new_public_key)
               = "Recovery request ID collision. Please try again."
\* C11: the threshold of a request is floor(n/2)+1 for the n guardians the
\* target has when initiate_recovery runs and never changes afterwards, also
\* when the target registers another guardian set; approve_recovery accepts
\* only members of the set registered at the time of the approval.
C11_CurrentGuardiansApprove ==
    \A id \in DOMAIN active_recovery_requests, c \in Accounts :
        approve_recovery_panic(c, id) = NoPanic
            => c \in user_guardians[active_recovery_requests[id].account_to_recover]

C11_ThresholdStep ==
    /\ user_guardians' # user_guardians
          => active_recovery_requests' = active_recovery_requests
    /\ active_recovery_requests' # active_recovery_requests =>
          /\ \A id \in DOMAIN active_recovery_requests' \ DOMAIN active_recovery_requests :
                active_recovery_requests'[id].threshold
                    = Cardinality(user_guardians[
                          active_recovery_requests'[id].account_to_recover]) \div 2 + 1
          /\ \A id \in DOMAIN active_recovery_requests
                          \cap DOMAIN active_recovery_requests' :
                active_recovery_requests'[id].threshold
                    = active_recovery_requests[id].threshold

C11_ThresholdSnapshot == [](C11_CurrentGuardiansApprove) /\ [][C11_ThresholdStep]_vars

\* a request whose threshold is no longer that of the registered guardian set,
\* with an approval recorded and a guardian that may still approve
C11_Witness ==
    \E id \in DOMAIN active_recovery_requests, c \in Accounts :
        LET r == active_recovery_requests[id] IN
        /\ r.threshold # Cardinality(user_guardians[r.account_to_recover]) \div 2 + 1
        /\ r.approvals # {}
        /\ approve_recovery_panic(c, id) = NoPanic
\* the guardian count of the target of each request created in this step
CreatedWith(n, t) ==
    \A id \in DOMAIN active_recovery_requests' \ DOMAIN active_recovery_requests :
        Cardinality(user_guardians[active_recovery_requests'[id].account_to_recover]) = n
            => active_recovery_requests'[id].threshold = t

\* C12: the threshold initiate_recovery records for a target with n guardians
\* is 1 when n = 2, 2 when n = 3 and 3 when n = 5.
C12_ThresholdTable ==
    [][active_recovery_requests' # active_recovery_requests
          => CreatedWith(2, 1) /\ CreatedWith(3, 2) /\ CreatedWith(5, 3)]_vars

\* C12 as amended: the threshold is 2 when n = 2, 2 when n = 3 and 3 when n = 5.
C12_ThresholdTableAmended ==
    [][active_recovery_requests' # active_recovery_requests
          => CreatedWith(2, 2) /\ CreatedWith(3, 2) /\ CreatedWith(5, 3)]_vars

\* requests were created while the target had 2 (or 3) and then 5 guardians
C12_Witness ==
    /\ Alice \in DOMAIN user_guardians
    /\ Cardinality(user_guardians[Alice]) = 5
    /\ \E i, j \in DOMAIN active_recovery_requests :
          /\ active_recovery_requests[i].threshold = 2
          /\ active_recovery_requests[j].threshold = 3
          /\ active_recovery_requests[j].initiated_timestamp = block_timestamp
(* ---------------------------------------------------------------------- *)
Created == DOMAIN active_recovery_requests' \ DOMAIN active_recovery_requests

C13_NoGuardiansAborts ==
    \A a \in Accounts, k \in PublicKeys :
        /\ a \notin DOMAIN user_guardians
              => initiate_recovery_panic(a, k) = "No guardians set for this account."
        /\ (/\ a \in DOMAIN user_guardians
            /\ recovery_id(a, k, block_timestamp) \notin DOMAIN active_recovery_requests)
              => initiate_recovery_panic(a, k) = NoPanic

C13_InitiateStep ==
    Created # {} =>
        /\ user_guardians' = user_guardians
        /\ \A id \in Created :
              /\ active_recovery_requests'[id].account_to_recover \in DOMAIN user_guardians
              /\ active_recovery_requests'[id].approvals = {}
              /\ id \notin {p.id : p \in promises'} \cup DOMAIN resolved'
        /\ \E c \in {Alice, Bob}, a \in Accounts, k \in PublicKeys :
              initiate_recovery(c, a, k)

\* C13: initiate_recovery for a target without a guardian set panics whoever
\* calls it, and no step creates a record for such a target or changes the
\* guardian directory while creating one; for a target with guardians the call
\* is accepted from any caller (the target itself or another account), and the
\* record it creates is in the ledger with no approvals, not pending and not
\* resolved.
C13_InitiateNeedsGuardians ==
    [](C13_NoGuardiansAborts) /\ [][C13_InitiateStep]_vars

\* a fresh request with no approvals exists while some account has no guardians
C13_Witness ==
    /\ \E id \in DOMAIN active_recovery_requests :
          /\ active_recovery_requests[id].approvals = {}
          /\ active_recovery_requests[id].initiated_timestamp = block_timestamp
    /\ \E a \in Accounts, k \in PublicKeys :
          /\ a \notin DOMAIN user_guardians
          /\ initiate_recovery_panic(a, k) # NoPanic

(* ---------------------------------------------------------------------- *)
C14_ExternalRejected ==
    /\ \A c \in Accounts :
          recovery_callback_panic(c) = "Method recovery_callback is private"
    /\ recovery_callback_panic(current_account_id) = NoPanic

C14_CallbackStep ==
    /\ \A c \in Accounts, a \in Owners : private_call(c, a) => UNCHANGED vars
    /\ resolved' # resolved =>
          \E p \in promises, r \in PromiseResults : recovery_callback(p, r)

\* C14: recovery_callback called by any account other than the contract itself
\* panics and changes nothing; the outcome of a request is recorded only by
\* the callback that the contract's own promise schedules.
C14_CallbackIsPrivate ==
    [](C14_ExternalRejected) /\ [][C14_CallbackStep]_vars

\* one request has been resolved by its callback while another is in flight,
\* for the same account, and direct calls are refused
C14_Witness ==
    /\ \E p \in promises, id \in DOMAIN resolved : p.id # id
    /\ \A c \in Accounts : recovery_callback_panic(c) # NoPanic

(* ---------------------------------------------------------------------- *)
\* the requests whose approvals reach the threshold in this step
ReachThreshold ==
    {id \in DOMAIN active_recovery_requests \cap DOMAIN active_recovery_requests' :
        ~Approved(id) /\ Approved(id)'}

\* C15: the recovery period runs from the moment the approvals first reach the
\* threshold, so a request that reaches its threshold in a step cannot be
\* executed in the state that step produces.
C15_LockStartsAtThreshold ==
    [][active_recovery_requests' # active_recovery_requests
          => \A id \in ReachThreshold : execute_recovery_panic(id)' # NoPanic]_vars

C15_DispatchAfterCreation ==
    /\ \A p \in promises' \ promises :
          block_timestamp - active_recovery_requests[p.id].initiated_timestamp
              >= RECOVERY_PERIOD_DAYS * NANOS_PER_DAY
    /\ \A id \in ReachThreshold :
          (execute_recovery_panic(id)' = NoPanic)
              <=> (block_timestamp - active_recovery_requests[id].initiated_timestamp
                      >= RECOVERY_PERIOD_DAYS * NANOS_PER_DAY)

\* C15 as amended: the recovery period runs from the creation of the request:
\* every dispatch happens at least RECOVERY_PERIOD after initiated_timestamp,
\* and a request whose approvals reach the threshold after that period can be
\* executed at once, with no further delay.
C15_TimeLockFromCreation ==
    [][<<active_recovery_requests, promises>>' # <<active_recovery_requests, promises>>
          => C15_DispatchAfterCreation]_vars

\* a request created a full recovery period ago has just been approved up to
\* its threshold and is executable, while another one, created exactly one
\* recovery period ago, has been dispatched
C15_Witness ==
    /\ \E id \in DOMAIN active_recovery_requests :
          /\ Approved(id)
          /\ Elapsed(id) >= recovery_period_nanos
          /\ execute_recovery_panic(id) = NoPanic
    /\ \E p \in promises :
          p.id = recovery_id(p.account_id, p.new_public_key,
                             block_timestamp - recovery_period_nanos)

(* ---------------------------------------------------------------------- *)
C16_NotActiveAborts ==
    \A id \in RecoveryIds \ DOMAIN active_recovery_requests, c \in Accounts :
        approve_recovery_panic(c, id) = "Recovery request not found."

C16_ApproveOnlyAdds ==
    \A c \in Accounts, id \in RecoveryIds :
        (approve_recovery(c, id) /\ active_recovery_requests' # active_recovery_requests)
            => /\ id \in DOMAIN active_recovery_requests
               /\ active_recovery_requests' =
                     [active_recovery_requests EXCEPT ![id].approvals = @ \cup {c}]
               /\ UNCHANGED <<user_guardians, block_timestamp, promises, resolved>>

C16_ApprovalsChangeOnlyByApprove ==
    \A id \in DOMAIN active_recovery_requests \cap DOMAIN active_recovery_requests' :
        active_recovery_requests'[id] # active_recovery_requests[id]
            => /\ promises' = promises
               /\ resolved' = resolved
               /\ DOMAIN active_recovery_requests' = DOMAIN active_recovery_requests
               /\ \E c \in Accounts : approve_recovery(c, id)

\* C16: approve_recovery on a request that is no longer in the ledger (being
\* executed, resolved as Failed or Successful, or never created) panics and
\* changes nothing; an accepted approve_recovery adds the caller to the
\* approvals of that request and does nothing else: the request stays in the
\* ledger, nothing is dispatched and nothing is resolved, also when the
\* approvals reach or exceed the threshold.
C16_ApproveWhileActive ==
    /\ [](C16_NotActiveAborts)
    /\ [][active_recovery_requests' # active_recovery_requests
            => C16_ApproveOnlyAdds /\ C16_ApprovalsChangeOnlyByApprove]_vars

\* a request whose approvals have reached the threshold is still in the ledger,
\* while a guardian's approval of a request being executed is refused
C16_Witness ==
    /\ \E id \in DOMAIN active_recovery_requests :
          /\ active_recovery_requests[id].approvals # {}
          /\ Approved(id)
    /\ \E p \in promises, c \in Accounts :
          /\ c \in user_guardians[p.account_id]
          /\ approve_recovery_panic(c, p.id) = "Recovery request not found."

(* ---------------------------------------------------------------------- *)
C17_EventuallyResolved ==
    \A p \in AllPromises : (p \in promises) ~> (p.id \in DOMAIN resolved)

C17_CallbackConsumesDispatch ==
    /\ \A id \in DOMAIN resolved' :
          (id \notin DOMAIN resolved \/ resolved'[id] # resolved[id])
              => /\ id \notin DOMAIN resolved
                 /\ \E p \in promises \ promises' : p.id = id
                 /\ Cardinality(promises') = Cardinality(promises) - 1
    /\ \A p \in promises' \ promises :
          /\ \E c \in Accounts : execute_recovery(c, p.id)
          /\ p.id \notin {q.id : q \in promises} \cup DOMAIN resolved
          /\ Cardinality(promises') = Cardinality(promises) + 1
    /\ \A p \in promises \ promises' : p.id \in DOMAIN resolved'

\* C17: when the account manager answers every call it accepted, every request
\* whose update has been dispatched is eventually resolved, as Successful or
\* as Failed; and each callback that is processed consumes one dispatched
\* call, each accepted execute_recovery dispatching exactly one, so a request
\* never has more callbacks than dispatches.
C17_DispatchedEventuallyResolved ==
    /\ C17_EventuallyResolved
    /\ [][<<promises, resolved>>' # <<promises, resolved>>
            => C17_CallbackConsumesDispatch]_vars

\* one request has been resolved and the call of another is still in flight
C17_Witness ==
    /\ \E id \in DOMAIN resolved : resolved[id] \in PromiseResults
    /\ \E p \in promises : p.id \notin DOMAIN resolved /\ p \in AllPromises

(* ---------------------------------------------------------------------- *)
\* everything the model holds about the request id
RequestView(id) ==
    [request |-> get_recovery_request(id),
     in_flight |-> {p \in promises : p.id = id},
     outcome |-> IF id \in DOMAIN resolved THEN resolved[id] ELSE "none"]

OthersUnchanged(id) ==
    /\ user_guardians' = user_guardians
    /\ \A o \in (TrackedIds \cup TrackedIds') \ {id} : RequestView(o)' = RequestView(o)

C18_Frame ==
    /\ \A c \in Accounts, id \in RecoveryIds :
          (approve_recovery(c, id) \/ execute_recovery(c, id)) => OthersUnchanged(id)
    /\ \A p \in promises, r \in PromiseResults :
          recovery_callback(p, r)
              => /\ OthersUnchanged(p.id)
                 /\ active_recovery_requests' = active_recovery_requests

\* C18: a step of approve_recovery or execute_recovery on a request, or of the
\* callback of its promise, leaves user_guardians and everything held about
\* every other request (its record, its promise in flight, its outcome)
\* unchanged, whatever the order of the callbacks and also when several
\* requests in flight are for the same account; the callback changes no
\* record in the ledger.
C18_OtherRequestsUntouched ==
    [][<<active_recovery_requests, promises, resolved>>'
            # <<active_recovery_requests, promises, resolved>> => C18_Frame]_vars

\* the callback of one request has reported a failure while another request
\* for the same account is still in flight
C18_Witness ==
    \E p \in promises, id \in DOMAIN resolved :
        /\ p.id # id
        /\ resolved[id] = "Failed"
        /\ \E k \in PublicKeys, t \in Genesis..block_timestamp :
              id = recovery_id(p.account_id, k, t)

(* ---------------------------------------------------------------------- *)
C19_AllApprovalsCount ==
    \A id \in DOMAIN active_recovery_requests :
        (/\ get_recovery_approvals_count(id) >= active_recovery_requests[id].threshold
         /\ Elapsed(id) >= recovery_period_nanos)
            => execute_recovery_panic(id) = NoPanic

C19_ApprovalsKept ==
    /\ user_guardians' # user_guardians
          => active_recovery_requests' = active_recovery_requests
    /\ \A id \in DOMAIN active_recovery_requests \cap DOMAIN active_recovery_requests' :
          /\ active_recovery_requests[id].approvals
                \subseteq active_recovery_requests'[id].approvals
          /\ get_recovery_approvals_count(id)' >= get_recovery_approvals_count(id)

\* C19: a step that changes user_guardians changes no request, so no approval
\* is revoked; the approvals of a request only grow while it is in the ledger;
\* and execute_recovery counts every recorded approval, also that of an
\* account that is no longer a guardian of the target.
C19_ApprovalsNeverRevoked ==
    [](C19_AllApprovalsCount) /\ [][C19_ApprovalsKept]_vars

\* a request can be executed although, without the approval of an account
\* since dropped from the guardian set, it would be short of its threshold
C19_Witness ==
    \E id \in DOMAIN active_recovery_requests :
        /\ execute_recovery_panic(id) = NoPanic
        /\ Cardinality(active_recovery_requests[id].approvals
                \cap user_guardians[active_recovery_requests[id].account_to_recover])
              < active_recovery_requests[id].threshold

(* ---------------------------------------------------------------------- *)
C20_BalanceIsDepositsLessWithdrawals ==
    \A a \in Accounts :
        /\ get_balance(a) = deposited[a] - withdrawn[a]
        /\ get_balance(a) >= 0

C20_Aborts ==
    /\ deposit_panic(0) # NoPanic
    /\ \A a \in Accounts, amount \in Amounts :
          (amount = 0 \/ a \notin DOMAIN balances \/ amount > get_balance(a))
              => withdraw_panic(a, amount) # NoPanic

C20_WithdrawStep ==
    \A a \in Accounts, amount \in Amounts :
        withdraw(a, amount) =>
            IF withdraw_panic(a, amount) # NoPanic
            THEN UNCHANGED bank_vars
            ELSE /\ get_balance(a)' = get_balance(a) - amount
                 /\ \A o \in Accounts \ {a} :
                       /\ get_balance(o)' = get_balance(o)
                       /\ (o \in DOMAIN balances') = (o \in DOMAIN balances)

\* C20: in the bank, the balance of every account is the sum of its accepted
\* deposits less the sum of its accepted withdrawals and is never negative;
\* deposit with nothing attached panics; withdraw panics, changing nothing,
\* when the amount is 0, when the caller has no balance entry or when the
\* amount exceeds the caller's balance; an accepted withdraw takes the amount
\* off the caller's balance and leaves every other balance as it was.
C20_BalanceLedger ==
    /\ [](C20_BalanceIsDepositsLessWithdrawals /\ C20_Aborts)
    /\ [][balances' # balances => C20_WithdrawStep]_bank_vars

\* one account has deposited and withdrawn part of it, another has withdrawn
\* all it had, and a third has no balance entry
C20_Witness ==
    /\ \E a \in Accounts : withdrawn[a] > 0 /\ get_balance(a) > 0
    /\ \E a \in DOMAIN balances : withdrawn[a] > 0 /\ get_balance(a) = 0
    /\ \E a \in Accounts :
          /\ a \notin DOMAIN balances
          /\ withdraw_panic(a, 0) = "No balance found for this account."

====
